---- MODULE Spec2Model ----
(***************************************************************************)
(* Self-update engine of the notebook monitor service:                     *)
(*   auto_updater.py     AutoUpdater (version record, check, backup,       *)
(*                       download, install, validate, rollback, cycle)     *)
(*   update_scheduler.py UpdateScheduler (start, stop, scheduler thread)   *)
(*                                                                         *)
(* Time is counted in ticks of 60 s, the scheduler's sleep slice, so a day  *)
(* (86400 s) is TicksPerDay ticks and the cooldown (300 s) CooldownTicks.  *)
(* A version string is the sequence of its dot-separated components, a     *)
(* component that int() rejects being NaC; a file content is named by the  *)
(* version of the release it came from, NoFile when the file is absent.    *)
(* File removal (unlink, rmtree) is taken to succeed; every other external *)
(* call (feed, download, archive I/O, save, service control) may fail.     *)
(***************************************************************************)
EXTENDS Integers, Sequences, FiniteSets, TLC

\* ---------------------------------------------------------------- bounds
MaxTime == 5
MaxCallTime == 2
MaxThreads == 2
MaxCycles == 1

\* ------------------------------------------------------- program constants
TicksPerDay == 1440
CooldownTicks == 5
DefaultRetentionDays == 7
TailLines == 50
DefaultInterval == TicksPerDay          \* 86400 s

NaC == 0 - 1                            \* a component that is no integer
NoTime == 0 - 1                         \* None as a timestamp
NoFile == << >>

V000 == <<0, 0, 0>>
V100 == <<1, 0, 0>>
V110 == <<1, 1, 0>>
Unknown == <<0 - 3>>                    \* the literal 'unknown'
Empty == <<NaC>>                        \* the empty string: ''.split('.') = ['']

\* --------------------------------------------------------------- dicts
Get(d, k, default) == IF k \in DOMAIN d THEN d[k] ELSE default

Put(d, k, v) == [x \in (DOMAIN d) \cup {k} |-> IF x = k THEN v ELSE d[x]]

EmptyDict == [x \in {} |-> 0]

\* the record load_version_info writes when version.json does not exist
\* (build_date and commit_hash are written with it and read by nothing)
DefaultVersion ==
    [version |-> V100, update_url |-> TRUE, auto_update_enabled |-> TRUE,
     update_check_interval |-> DefaultInterval, last_update_check |-> NoTime,
     backup_retention_days |-> DefaultRetentionDays]

\* ------------------------------------------------------- version.json
\* the file is absent, holds text json.load rejects, holds JSON that is no
\* object (a list, a string: .get and item assignment raise on it), or holds
\* a dict
FileAbsent == [st |-> "absent", data |-> EmptyDict]
FileMalformed == [st |-> "malformed", data |-> EmptyDict]
FileNotDict == [st |-> "notdict", data |-> EmptyDict]
FileOk(d) == [st |-> "ok", data |-> d]

\* open(...,'w') may be refused (file untouched) or the dump may stop midway
\* (file truncated); both end in the except branch
SaveOutcomes == {"ok", "denied", "partial"}

SaveVersionInfo(vf, d, o) ==
    CASE o = "ok"      -> [file |-> FileOk(d), ret |-> TRUE]
      [] o = "denied"  -> [file |-> vf, ret |-> FALSE]
      [] o = "partial" -> [file |-> FileMalformed, ret |-> FALSE]

\* variant: a file json.load rejects is replaced by the default record, as a
\* missing one is
LoadVersionInfoMut(vf, o) ==
    CASE vf.st = "ok"      -> [dict |-> vf.data, file |-> vf, isdict |-> TRUE]
      [] vf.st = "notdict" -> [dict |-> EmptyDict, file |-> vf, isdict |-> FALSE]
      [] OTHER             -> [dict |-> DefaultVersion, isdict |-> TRUE,
                               file |-> SaveVersionInfo(vf, DefaultVersion, o).file]
\* isdict: whether the value returned is a dict
LoadVersionInfo(vf, o) ==
    CASE vf.st = "ok"        -> [dict |-> vf.data, file |-> vf, isdict |-> TRUE]
      [] vf.st = "absent"    -> [dict |-> DefaultVersion, isdict |-> TRUE,
                                 file |-> SaveVersionInfo(vf, DefaultVersion, o).file]
      [] vf.st = "malformed" -> [dict |-> EmptyDict, file |-> vf, isdict |-> TRUE]
      [] vf.st = "notdict"   -> [dict |-> EmptyDict, file |-> vf, isdict |-> FALSE]

\* ------------------------------------------------------ version compare
Parses(v) == \A i \in 1..Len(v) : v[i] >= 0

Min(a, b) == IF a <= b THEN a ELSE b

\* Python's tuple order: the first differing component decides, and a proper
\* prefix is smaller
TupleGreater(a, b) ==
    \/ \E i \in 1..Min(Len(a), Len(b)) :
          /\ a[i] > b[i]
          /\ \A j \in 1..(i - 1) : a[j] = b[j]
    \/ /\ Len(a) > Len(b)
       /\ \A j \in 1..Len(b) : a[j] = b[j]

\* variant: any release whose version parses counts as newer
IsNewerVersionMut(new, current) == Parses(new)
\* _is_newer_version on the components split off the two strings
IsNewerVersion(new, current) ==
    IF Parses(new) /\ Parses(current) THEN TupleGreater(new, current) ELSE FALSE

\* tag_name.lstrip('v'): the tag is its count of leading 'v' and the rest
LStripV(tag) == tag.rest

\* ------------------------------------------------------------- release feed
Tags ==
    {[v |-> 1, rest |-> V110], [v |-> 1, rest |-> V100], [v |-> 0, rest |-> Empty]}

\* a SHA-256 digest is named by the payload it is the digest of; hexdigest()
\* is lower case, a published digest may be upper case
NoChecksum == [hex |-> "", upper |-> FALSE]
Digest(id, up) == [hex |-> id, upper |-> up]
Lower(c) == [c EXCEPT !.upper = FALSE]

\* what the download URL can deliver
FilesToUpdate == {"notebook_monitor_service.py", "requirements.txt", "database_schema.sql"}
OtherFiles == FilesToUpdate \cup {".env"}
NoPayload == [id |-> "", zip |-> FALSE, files |-> {}]
PFull == [id |-> "full", zip |-> TRUE, files |-> FilesToUpdate]
PNoFiles == [id |-> "nofiles", zip |-> TRUE, files |-> {}]
PJunk == [id |-> "junk", zip |-> FALSE, files |-> {}]
PPartial == [id |-> "partial", zip |-> FALSE, files |-> {}]
Payloads == {PFull, PNoFiles, PJunk}
Sha256(p) == Digest(p.id, FALSE)

\* the companion checksum asset: none listed, the fetch raises, the body is
\* blank, the body's first token is a digest, or the server answers with an
\* error status and a page whose first word stands as the token
ChecksumAssets ==
    {[kind |-> k, token |-> NoChecksum] : k \in {"absent", "error", "empty"}}
    \cup {[kind |-> "token", token |-> Digest("full", up)] : up \in BOOLEAN}
    \cup {[kind |-> "token", token |-> Digest("junk", FALSE)]}
    \cup {[kind |-> "httperror", token |-> Digest("Not", FALSE)]}

FeedFail == [status |-> "fail", tag |-> [v |-> 0, rest |-> Empty], url |-> FALSE,
             csum |-> [kind |-> "absent", token |-> NoChecksum]]
\* a release with no download URL at all is taken to list no checksum either
FeedResponses ==
    {FeedFail} \cup
    [status : {"ok"}, tag : Tags, url : {TRUE}, csum : ChecksumAssets] \cup
    [status : {"ok"}, tag : Tags, url : {FALSE},
     csum : {[kind |-> "absent", token |-> NoChecksum]}]

\* response.text.strip().split()[0], whatever the status of the response
\* (raise_for_status is not called); a blank body raises IndexError, which
\* the bare except swallows like a transport error
GetChecksumFromRelease(asset) ==
    IF asset.kind \in {"token", "httperror"} THEN asset.token ELSE NoChecksum

\* None as the candidate
NoInfo == [version |-> NoFile, download_url |-> FALSE, checksum |-> NoChecksum]

\* -------------------------------------------------------- check_for_updates
\* variant: the timestamp branch is taken whatever the request did
FeedAnsweredMut(feed) == TRUE
\* requests.get returned and raise_for_status did not raise
FeedAnswered(feed) == feed.status = "ok"

\* variant: the flag is not looked at
EnabledMut(d) == TRUE
\* version_info.get('auto_update_enabled', True)
Enabled(d) == Get(d, "auto_update_enabled", TRUE)

\* variant: a check is never too soon
TooSoonMut(t, last_check, interval) == FALSE
\* (now - last_check_time).total_seconds() < interval
TooSoon(t, last_check, interval) == t - last_check < interval

\* variant: the timestamp is left as it was
StampMut(d, t) == d
\* version_info['last_update_check'] = now
Stamp(d, t) == Put(d, "last_update_check", t)

\* net: whether the feed was queried
CheckForUpdates(vf, t, feed, o1, o2) ==
    LET ld == LoadVersionInfo(vf, o1)
        d == ld.dict
        last_check == Get(d, "last_update_check", NoTime)
        quiet == [file |-> ld.file, info |-> NoInfo, net |-> FALSE]
    IN  IF ~ld.isdict THEN quiet
        ELSE IF ~Enabled(d) THEN quiet
        ELSE IF last_check # NoTime
                /\ TooSoon(t, last_check,
                           Get(d, "update_check_interval", DefaultInterval))
             THEN quiet
        ELSE IF ~Get(d, "update_url", FALSE) THEN quiet
        ELSE IF ~FeedAnswered(feed)
             THEN [file |-> ld.file, info |-> NoInfo, net |-> TRUE]
        ELSE LET sv == SaveVersionInfo(ld.file, Stamp(d, t), o2)
                 current_version == Get(d, "version", V000)
                 latest_version == LStripV(feed.tag)
             IN  [file |-> sv.file,
                  info |-> IF IsNewerVersion(latest_version, current_version)
                           THEN [version |-> latest_version,
                                 download_url |-> feed.url,
                                 checksum |-> GetChecksumFromRelease(feed.csum)]
                           ELSE NoInfo,
                  net |-> TRUE]

\* ------------------------------------------------------------ create_backup
NoPath == [ver |-> NoFile, ts |-> NoTime]

\* variant: the comparison is turned round
OlderThanMut(mtime, cutoff, sub) == mtime > cutoff
\* st_mtime < cutoff.timestamp(): within one tick the order of the two
\* instants is not known (sub: the file's is the earlier)
OlderThan(mtime, cutoff, sub) == mtime < cutoff \/ (mtime = cutoff /\ sub)

\* _cleanup_old_backups at time t; pr = "fail": glob or stat raised, which
\* the except branch logs
CleanupOldBackups(vf, bks, t, o, pr, sub) ==
    LET ld == LoadVersionInfo(vf, o)
        retention_days == Get(ld.dict, "backup_retention_days", DefaultRetentionDays)
        cutoff == t - retention_days * TicksPerDay
    IN  [file |-> ld.file,
         backups |-> IF pr = "ok" /\ ld.isdict
                     THEN {b \in bks : ~OlderThan(b.mtime, cutoff, sub)} ELSE bks]

\* variant: an error of the pruning reaches create_backup
CleanupEscalatesMut(pr) == pr = "fail"
\* _cleanup_old_backups catches what glob, stat or unlink raise and logs it
CleanupEscalates(pr) == FALSE

\* w = "fail": writing the archive raised (no usable archive is left)
CreateBackup(vf, lv, bks, t, o1, w, o2, pr, sub) ==
    LET ld == LoadVersionInfo(vf, o1)
        backup_path == [ver |-> Get(ld.dict, "version", Unknown), ts |-> t]
        archive == [path |-> backup_path, mtime |-> t, files |-> lv, vfile |-> ld.file]
        pruned == CleanupOldBackups(ld.file,
                      {b \in bks : b.path # backup_path} \cup {archive}, t, o2, pr, sub)
    IN  IF w = "ok" /\ ld.isdict /\ ~CleanupEscalates(pr)
        THEN [path |-> backup_path, file |-> pruned.file, backups |-> pruned.backups]
        ELSE [path |-> NoPath, file |-> ld.file, backups |-> bks]

\* ---------------------------------------------------------- download_update
NoTemp == [exists |-> FALSE, zip |-> NoPayload, extracted |-> FALSE]

\* variant: every payload passes
VerifyChecksumMut(p, expected_checksum) == TRUE
VerifyChecksum(p, expected_checksum) == Lower(Sha256(p)) = Lower(expected_checksum)

\* variant: the rejected file stays
UnlinkMut(tmp) == tmp
\* download_file.unlink()
Unlink(tmp) == [tmp EXCEPT !.zip = NoPayload]

\* resp = "fail": the request raised before a byte was written; "partial":
\* the stream broke; "ok": payload p was written whole.  file is the path
\* returned, named by the version, NoFile for None
DownloadUpdate(info, tmp, resp, p) ==
    LET made == [tmp EXCEPT !.exists = TRUE]
        got == [made EXCEPT !.zip = p]
    IN  IF ~info.download_url THEN [file |-> NoFile, temp |-> tmp]
        ELSE IF resp = "fail" THEN [file |-> NoFile, temp |-> made]
        ELSE IF resp = "partial"
             THEN [file |-> NoFile, temp |-> [made EXCEPT !.zip = PPartial]]
        ELSE IF info.checksum # NoChecksum /\ ~VerifyChecksum(p, info.checksum)
             THEN [file |-> NoFile, temp |-> Unlink(got)]
        ELSE [file |-> info.version, temp |-> got]

\* ----------------------------------------------------------- service control
\* variant: a stop is always reported as done
StopServiceMut(svc, ok) == [ret |-> TRUE, svc |-> FALSE]
\* sc stop: ok = the command reported success (or "not started")
StopService(svc, ok) == [ret |-> ok, svc |-> IF ok THEN FALSE ELSE svc]

\* sc start fails on a service that is running already
StartService(svc, ok) ==
    IF svc THEN [ret |-> FALSE, svc |-> svc]
    ELSE [ret |-> ok, svc |-> ok]

\* ----------------------------------------------------------- install_update
FilesInOrder == <<"notebook_monitor_service.py", "requirements.txt", "database_schema.sql">>

\* the first k files the artifact holds, in the order of files_to_update
FirstCopied(files, k) ==
    {FilesInOrder[i] : i \in {j \in 1..Len(FilesInOrder) :
        /\ FilesInOrder[j] \in files
        /\ Cardinality({m \in 1..j : FilesInOrder[m] \in files}) <= k}}

\* variant: an artifact without the main file has no main directory
FindMainDirectoryMut(files) ==
    IF "notebook_monitor_service.py" \in files THEN "found" ELSE "none"
\* _find_main_directory: the directory that holds notebook_monitor_service.py,
\* else the extraction directory itself; never None
FindMainDirectory(files) ==
    IF "notebook_monitor_service.py" \in files THEN "found" ELSE "extract_dir"

\* variant: the record is written anew, with the version and the date only
InstalledMut(d, v, t) == Put(Put(EmptyDict, "version", v), "last_update", t)
\* the record install_update saves: the one it loaded, with the version and
\* the dates set
Installed(d, v, t) == Put(Put(d, "version", v), "last_update", t)

\* stopOk: outcome of _stop_service; k: files copied before shutil.copy2
\* raised (all of them: no error)
InstallUpdate(vf, lv, tmp, svc, info, t, stopOk, k, o1, o2) ==
    LET st == StopService(svc, stopOk)
        main_dir == FindMainDirectory(tmp.zip.files)
        same == [ret |-> FALSE, file |-> vf, live |-> lv, temp |-> tmp,
                 svc |-> st.svc, stop |-> TRUE]
        ex == [tmp EXCEPT !.extracted = TRUE]
        copied == FirstCopied(tmp.zip.files, k)
        lv2 == [f \in OtherFiles |-> IF f \in copied THEN info.version ELSE lv[f]]
        ld == LoadVersionInfo(vf, o1)
        version_info == Installed(ld.dict, info.version, t)
    IN  IF ~st.ret THEN same
        ELSE IF ~tmp.zip.zip THEN [same EXCEPT !.temp = ex]
        ELSE IF main_dir = "none" THEN [same EXCEPT !.temp = ex]
        ELSE IF k < Cardinality(tmp.zip.files) \/ ~ld.isdict
             THEN [same EXCEPT !.temp = ex, !.live = lv2]
        ELSE [ret |-> TRUE, file |-> SaveVersionInfo(ld.file, version_info, o2).file,
              live |-> lv2, temp |-> ex, svc |-> st.svc, stop |-> TRUE]

\* ---------------------------------------------------------- validate_update
\* notebook_monitor.log: absent, or len lines of which line number marker
\* (0: none) holds one of the critical patterns
NoLog == [exists |-> FALSE, len |-> 0, marker |-> 0]

LogLengths == {0, 1, TailLines, TailLines + 1, TailLines + 10}

Logs ==
    {NoLog} \cup
    UNION {{[exists |-> TRUE, len |-> n, marker |-> m] :
               m \in {0, 1, n - TailLines, n - TailLines + 1, n} \cap (0..n)} :
           n \in LogLengths}

\* the logs and read outcomes a cycle's validation meets: no log, a clean
\* one, a marker inside the last lines, a marker before them only, a log
\* that cannot be opened, an empty log whose second read fails
CycleLogs ==
    {[log |-> NoLog, rd |-> "ok", rb |-> "ok"],
     [log |-> [exists |-> TRUE, len |-> 1, marker |-> 0], rd |-> "ok", rb |-> "ok"],
     [log |-> [exists |-> TRUE, len |-> 1, marker |-> 1], rd |-> "ok", rb |-> "ok"],
     [log |-> [exists |-> TRUE, len |-> TailLines + 1, marker |-> 1],
      rd |-> "ok", rb |-> "ok"],
     [log |-> [exists |-> TRUE, len |-> 1, marker |-> 0], rd |-> "error", rb |-> "ok"],
     [log |-> [exists |-> TRUE, len |-> 0, marker |-> 0], rd |-> "ok", rb |-> "error"]}

\* variant: every line of the log is scanned
LastLinesMut(log) == 1..log.len
\* f.readlines()[-50:]: the numbers of the lines kept
LastLines(log) == {i \in 1..log.len : i > log.len - TailLines}

\* rd = "error": opening or reading the log in text mode raised (it goes to
\* the outer except branch); rb = "error": the binary read, made when the
\* text read gave no line, raised (the inner except branch)
HasCriticalErrorsInLogs(log, rd, rb) ==
    IF ~log.exists THEN FALSE
    ELSE IF rd = "error" THEN TRUE
    ELSE IF LastLines(log) = {} /\ rb = "error" THEN FALSE
    ELSE log.marker \in LastLines(log)

\* alive: whether the service is reported running after the settle wait
\* started: what _start_service returned; asked/scanned: whether the running
\* state was queried, the log was looked at
ValidateUpdate(svc, startOk, alive, log, rd, rb) ==
    LET st == StartService(svc, startOk)
    IN  IF ~st.ret
        THEN [ret |-> FALSE, svc |-> st.svc, started |-> FALSE,
              asked |-> FALSE, scanned |-> FALSE]
        ELSE IF ~alive
        THEN [ret |-> FALSE, svc |-> FALSE, started |-> TRUE,
              asked |-> TRUE, scanned |-> FALSE]
        ELSE [ret |-> ~HasCriticalErrorsInLogs(log, rd, rb), svc |-> TRUE,
              started |-> TRUE, asked |-> TRUE, scanned |-> TRUE]

\* ---------------------------------------------------------- rollback_update
\* variant: nothing is extracted over the live files
RestoreMut(a, vf, lv) == [file |-> vf, live |-> lv]
\* zipf.extractall(base_dir): every file the archive holds overwrites the
\* live one
Restore(a, vf, lv) ==
    [file |-> IF a.vfile.st = "absent" THEN vf ELSE a.vfile,
     live |-> [f \in OtherFiles |-> IF a.files[f] = NoFile THEN lv[f] ELSE a.files[f]]]

\* variant: a rollback that restored the files reports success
AfterRestoreMut(started) == TRUE
\* if self._start_service(): return True, else: return False
AfterRestore(started) == started

\* x = "error": opening or extracting the archive raised.  stopped, started:
\* what _stop_service and _start_service returned; start: whether
\* _start_service was called
RollbackUpdate(path, vf, lv, bks, svc, stopOk, x, startOk) ==
    LET st == StopService(svc, stopOk)
        found == {b \in bks : b.path = path}
        a == CHOOSE b \in found : TRUE
        rs == Restore(a, vf, lv)
        up == StartService(st.svc, startOk)
    IN  IF found = {} \/ x # "ok"
        THEN [ret |-> FALSE, file |-> vf, live |-> lv, svc |-> st.svc,
              restored |-> FALSE, start |-> FALSE, stopped |-> st.ret,
              started |-> FALSE]
        ELSE [ret |-> AfterRestore(up.ret), file |-> rs.file, live |-> rs.live,
              svc |-> up.svc, restored |-> TRUE, start |-> TRUE,
              stopped |-> st.ret, started |-> up.ret]

\* -------------------------------------------------------- cleanup_temp_files
\* variant: temp_update is left as it is
CleanupTempFilesMut(tmp) == tmp
CleanupTempFiles(tmp) == NoTemp


\* ===================================================================== state
VARIABLES
    versionFile,    \* version.json
    live,           \* the other well-known files of the installation
    backups,        \* the archives in backups/
    temp,           \* temp_update/
    svcRunning,     \* whether the Windows service runs
    now,            \* the clock
    pc,             \* where each thread stands
    update_info,    \* perform_update's locals, per thread
    backup_path,
    update_file,
    ret,            \* what perform_update returns: "none" until decided
    ev,             \* what the current cycle of each thread has done so far
    running,        \* UpdateScheduler.running
    thread,         \* UpdateScheduler.thread: 0 for None
    caller,         \* where the owner of the scheduler stands
    interval,       \* _run_scheduler's locals, per thread
    sleep_time,
    wake,           \* when the thread's current time.sleep ends
    back,           \* where perform_update returns to, per thread
    cycles,         \* perform_update calls begun so far
    call,           \* a function called on its own: its arguments
    result          \* and what it returned

fsVars == <<versionFile, live, backups, temp, svcRunning>>
cycleVars == <<update_info, backup_path, update_file, ret, ev>>
schedVars == <<running, thread, caller, interval, sleep_time, wake, back>>
vars == <<versionFile, live, backups, temp, svcRunning, now, pc, update_info,
          backup_path, update_file, ret, ev, running, thread, caller, interval,
          sleep_time, wake, back, cycles, call, result>>

Threads == 1..MaxThreads

\* nothing done yet.  pre: version.json as the cycle found it; net: the feed
\* query; payload: what the download wrote whole; handler: what the
\* top-level except branch did; raised: an error escaped a step; ioerr: a
\* file operation of the cycle failed (save, archive write or read, copy);
\* snap: the files as they were when create_backup ran; installstop: what
\* install_update's _stop_service returned
NoSnap == [taken |-> FALSE, files |-> [f \in OtherFiles |-> NoFile], vfile |-> FileAbsent]

EvNone(vf) ==
    [pre |-> vf, net |-> "none", backup |-> "none", download |-> "none",
     payload |-> NoPayload, install |-> "none", validate |-> "none",
     rollbacks |-> << >>, stop |-> FALSE, start |-> FALSE, restored |-> FALSE,
     handler |-> "none", raised |-> FALSE, ioerr |-> FALSE, cleaned |-> FALSE,
     snap |-> NoSnap, installstop |-> "none"]

Outcome(ok) == IF ok THEN "ok" ELSE "fail"

BaseRecord ==
    [version |-> V100, update_url |-> TRUE, auto_update_enabled |-> TRUE,
     update_check_interval |-> 2, last_update_check |-> NoTime,
     backup_retention_days |-> 1]

InitRecords ==
    {BaseRecord,
     [BaseRecord EXCEPT !.update_url = FALSE],
     [BaseRecord EXCEPT !.auto_update_enabled = FALSE],
     [BaseRecord EXCEPT !.update_check_interval = 0],
     [BaseRecord EXCEPT !.last_update_check = 0],
     [BaseRecord EXCEPT !.backup_retention_days = 0],
     [BaseRecord EXCEPT !.backup_retention_days = 0, !.last_update_check = 0],
     [BaseRecord EXCEPT !.version = V110]}

InitFiles == {FileAbsent, FileMalformed, FileNotDict} \cup {FileOk(d) : d \in InitRecords}

\* an installation may lack some of the well-known files
InitLive ==
    {[f \in OtherFiles |-> IF f = "database_schema.sql" THEN NoFile ELSE V100]}

\* no function is called on its own
NoCall == [fn |-> "none"]
NoResult == [done |-> FALSE]

\* what holds before anything ran, whatever version.json and backups/ hold
InitRest ==
    /\ live \in InitLive
    /\ temp = NoTemp
    /\ svcRunning = TRUE
    /\ now = 0
    /\ update_info = [t \in Threads |-> NoInfo]
    /\ backup_path = [t \in Threads |-> NoPath]
    /\ update_file = [t \in Threads |-> NoFile]
    /\ ret = [t \in Threads |-> "none"]
    /\ ev = [t \in Threads |-> EvNone(versionFile)]
    /\ running = FALSE
    /\ thread = 0
    /\ caller = "ready"
    /\ interval = [t \in Threads |-> 0]
    /\ sleep_time = [t \in Threads |-> 0]
    /\ wake = [t \in Threads |-> 0]
    /\ back = [t \in Threads |-> "idle"]
    /\ cycles = 0

InitCommon ==
    /\ versionFile \in InitFiles
    /\ backups = {}
    /\ call = NoCall
    /\ result = NoResult
    /\ InitRest

\* AutoUpdater used directly (main): thread 1 calls perform_update
Init ==
    /\ InitCommon
    /\ pc = [t \in Threads |-> IF t = 1 THEN "idle" ELSE "free"]

\* ============================================================ perform_update
\* where the cycle goes after each step, and what it returns
Go(p) == [pc |-> p, ret |-> "none"]
Return(r) == [pc |-> "cleanup", ret |-> r]

AfterCheck(info) == IF info = NoInfo THEN Return("true") ELSE Go("backup")
\* variant: the cycle goes on without an archive
AfterBackupMut(path) == Go("download")
AfterBackup(path) == IF path = NoPath THEN Return("false") ELSE Go("download")
\* variant: the cycle goes on without an artifact
AfterDownloadMut(file) == Go("install")
AfterDownload(file) == IF file = NoFile THEN Return("false") ELSE Go("install")
\* variant: a failed install downloads again
AfterInstallMut(ok) == IF ~ok THEN Go("download") ELSE Go("validate")
AfterInstall(ok) == IF ~ok THEN Return("false") ELSE Go("validate")
\* variant: the cycle succeeds whatever validation said
AfterValidateMut(ok) == Return("true")
AfterValidate(ok) == IF ~ok THEN Go("rollback") ELSE Return("true")

\* exc: an error escapes to perform_update once the step has run
Continue(t, to, exc) ==
    /\ pc' = [pc EXCEPT ![t] = IF exc THEN "except" ELSE to.pc]
    /\ ret' = [ret EXCEPT ![t] = IF exc THEN "none" ELSE to.ret]

\* the locals of a call that begins
Begin(t, vf) ==
    /\ cycles < MaxCycles
    /\ cycles' = cycles + 1
    /\ update_info' = [update_info EXCEPT ![t] = NoInfo]
    /\ backup_path' = [backup_path EXCEPT ![t] = NoPath]
    /\ update_file' = [update_file EXCEPT ![t] = NoFile]
    /\ ret' = [ret EXCEPT ![t] = "none"]
    /\ ev' = [ev EXCEPT ![t] = EvNone(vf)]
    /\ UNCHANGED <<call, result>>

Call(t) ==
    /\ pc[t] = "idle"
    /\ pc' = [pc EXCEPT ![t] = "check"]
    /\ Begin(t, versionFile)
    /\ UNCHANGED <<fsVars, now, schedVars>>

Check(t) ==
    /\ pc[t] = "check"
    /\ \E feed \in FeedResponses, o1, o2 \in SaveOutcomes, exc \in BOOLEAN :
        LET r == CheckForUpdates(versionFile, now, feed, o1, o2)
            clean == CheckForUpdates(versionFile, now, feed, "ok", "ok")
        IN  /\ versionFile' = r.file
            /\ update_info' = [update_info EXCEPT ![t] = r.info]
            /\ ev' = [ev EXCEPT
                        ![t].net = IF r.net THEN Outcome(feed.status = "ok") ELSE "none",
                        ![t].ioerr = @ \/ r # clean,
                        ![t].raised = @ \/ exc]
            /\ Continue(t, AfterCheck(r.info), exc)
    /\ UNCHANGED <<live, backups, temp, svcRunning, now, backup_path, update_file,
                   schedVars, cycles, call, result>>

Backup(t) ==
    /\ pc[t] = "backup"
    /\ \E o1, o2 \in SaveOutcomes, w, pr \in {"ok", "fail"}, sub, exc \in BOOLEAN :
        LET r == CreateBackup(versionFile, live, backups, now, o1, w, o2, pr, sub)
            clean == CreateBackup(versionFile, live, backups, now,
                                  "ok", "ok", "ok", "ok", sub)
        IN  /\ versionFile' = r.file
            /\ backups' = r.backups
            /\ backup_path' = [backup_path EXCEPT ![t] = r.path]
            /\ ev' = [ev EXCEPT ![t].backup = Outcome(r.path # NoPath),
                                ![t].snap = [taken |-> r.path # NoPath,
                                             files |-> live, vfile |-> versionFile],
                                ![t].ioerr = @ \/ r # clean,
                                ![t].raised = @ \/ exc]
            /\ Continue(t, AfterBackup(r.path), exc)
    /\ UNCHANGED <<live, temp, svcRunning, now, update_info, update_file, schedVars,
                   cycles, call, result>>

Download(t) ==
    /\ pc[t] = "download"
    /\ \E resp \in {"ok", "fail", "partial"}, p \in Payloads, exc \in BOOLEAN :
        LET r == DownloadUpdate(update_info[t], temp, resp, p)
        IN  /\ temp' = r.temp
            /\ update_file' = [update_file EXCEPT ![t] = r.file]
            /\ ev' = [ev EXCEPT
                        ![t].download = Outcome(r.file # NoFile),
                        ![t].payload = IF update_info[t].download_url /\ resp = "ok"
                                       THEN p ELSE NoPayload,
                        ![t].raised = @ \/ exc]
            /\ Continue(t, AfterDownload(r.file), exc)
    /\ UNCHANGED <<versionFile, live, backups, svcRunning, now, update_info,
                   backup_path, schedVars, cycles, call, result>>

Install(t) ==
    /\ pc[t] = "install"
    /\ \E stopOk \in BOOLEAN, k \in 0..Cardinality(FilesToUpdate),
          o1, o2 \in SaveOutcomes, exc \in BOOLEAN :
        LET r == InstallUpdate(versionFile, live, temp, svcRunning, update_info[t],
                               now, stopOk, k, o1, o2)
            clean == InstallUpdate(versionFile, live, temp, svcRunning,
                                   update_info[t], now, stopOk,
                                   Cardinality(temp.zip.files), "ok", "ok")
        IN  /\ k <= Cardinality(temp.zip.files)
            /\ versionFile' = r.file
            /\ live' = r.live
            /\ temp' = r.temp
            /\ svcRunning' = r.svc
            /\ ev' = [ev EXCEPT ![t].install = Outcome(r.ret),
                                ![t].stop = TRUE,
                                ![t].installstop = Outcome(stopOk),
                                ![t].ioerr = @ \/ r # clean,
                                ![t].raised = @ \/ exc]
            /\ Continue(t, AfterInstall(r.ret), exc)
    /\ UNCHANGED <<backups, now, update_info, backup_path, update_file, schedVars,
                   cycles, call, result>>

Validate(t) ==
    /\ pc[t] = "validate"
    /\ \E startOk, alive \in BOOLEAN, c \in CycleLogs, exc \in BOOLEAN :
        LET r == ValidateUpdate(svcRunning, startOk, alive, c.log, c.rd, c.rb)
        IN  /\ svcRunning' = r.svc
            /\ ev' = [ev EXCEPT ![t].validate = Outcome(r.ret),
                                ![t].start = TRUE,
                                ![t].raised = @ \/ exc]
            /\ Continue(t, AfterValidate(r.ret), exc)
    /\ UNCHANGED <<versionFile, live, backups, temp, now, update_info, backup_path,
                   update_file, schedVars, cycles, call, result>>

\* rollback_update(path) as perform_update calls it
DoRollback(t, path, stopOk, x, startOk, exc) ==
    LET r == RollbackUpdate(path, versionFile, live, backups, svcRunning,
                            stopOk, x, startOk)
    IN  /\ versionFile' = r.file
        /\ live' = r.live
        /\ svcRunning' = r.svc
        /\ ev' = [ev EXCEPT ![t].rollbacks = Append(@, path),
                            ![t].stop = TRUE,
                            ![t].start = @ \/ r.start,
                            ![t].restored = @ \/ r.restored,
                            ![t].ioerr = @ \/ x # "ok",
                            ![t].handler = IF pc[t] = "except" THEN "rollback" ELSE @,
                            ![t].raised = @ \/ exc]

\* validation failed: roll back if there is a backup, return False
Rollback(t) ==
    /\ pc[t] = "rollback"
    /\ \E stopOk, startOk \in BOOLEAN, x \in {"ok", "error"}, exc \in BOOLEAN :
        /\ IF backup_path[t] # NoPath
           THEN DoRollback(t, backup_path[t], stopOk, x, startOk, exc)
           ELSE /\ ev' = [ev EXCEPT ![t].raised = @ \/ exc]
                /\ UNCHANGED <<versionFile, live, svcRunning>>
        /\ Continue(t, Return("false"), exc)
    /\ UNCHANGED <<backups, temp, now, update_info, backup_path, update_file,
                   schedVars, cycles, call, result>>

\* variant: the handler never rolls back
HandlerRollsBackMut(path) == FALSE
\* whether the top-level handler rolls back
HandlerRollsBack(path) == path # NoPath

\* except Exception: roll back if a backup path is held, return False
Except(t) ==
    /\ pc[t] = "except"
    /\ \E stopOk, startOk \in BOOLEAN, x \in {"ok", "error"} :
        IF HandlerRollsBack(backup_path[t])
        THEN DoRollback(t, backup_path[t], stopOk, x, startOk, FALSE)
        ELSE /\ ev' = [ev EXCEPT ![t].handler = "norollback"]
             /\ UNCHANGED <<versionFile, live, svcRunning>>
    /\ Continue(t, Return("false"), FALSE)
    /\ UNCHANGED <<backups, temp, now, update_info, backup_path, update_file,
                   schedVars, cycles, call, result>>

\* finally: cleanup_temp_files, then the call returns
Cleanup(t) ==
    /\ pc[t] = "cleanup"
    /\ temp' = CleanupTempFiles(temp)
    /\ ev' = [ev EXCEPT ![t].cleaned = TRUE]
    /\ pc' = [pc EXCEPT ![t] = back[t]]
    /\ UNCHANGED <<versionFile, live, backups, svcRunning, now, update_info,
                   backup_path, update_file, ret, schedVars, cycles, call, result>>

\* time passes, as seen by a thread that waits for it: a caller that has a
\* call to make, a scheduler thread asleep (the steps of a cycle are short
\* against a tick)
Tick ==
    /\ now < MaxTime
    /\ \E t \in Threads :
          \/ pc[t] = "idle" /\ cycles < MaxCycles /\ now < MaxCallTime
          \/ pc[t] \in {"sleeping", "cooldown"}
    /\ now' = now + 1
    /\ UNCHANGED <<fsVars, pc, cycleVars, schedVars, cycles, call, result>>

Step(t) ==
    \/ Check(t) \/ Backup(t) \/ Download(t) \/ Install(t) \/ Validate(t)
    \/ Rollback(t) \/ Except(t) \/ Cleanup(t)

Next ==
    \/ Call(1)
    \/ Step(1)
    \/ Tick

Spec == Init /\ [][Next]_vars

\* the thread inside perform_update keeps running: every wait of a step is
\* bounded (requests timeouts, subprocess timeouts, fixed sleeps)
LiveSpec == Spec /\ WF_vars(Step(1))

\* =========================================================== UpdateScheduler
\* a thread blocks in a cycle (network waits, settle waits) and in time.sleep
Blocked(t) == pc[t] \notin {"free", "loop", "sleepchk"}

Alive == {t \in Threads : pc[t] # "free"}

\* start(): a new thread runs _run_scheduler, unless running is set
Start ==
    /\ caller = "ready"
    /\ ~running
    /\ running' = TRUE
    /\ \E t \in Threads :
        /\ pc[t] = "free"
        /\ thread' = t
        /\ pc' = [pc EXCEPT ![t] = "loop"]
    /\ UNCHANGED <<fsVars, now, cycleVars, caller, interval, sleep_time, wake,
                   back, cycles, call, result>>

\* stop(): clear running, then join the thread for at most 5 s
Stop ==
    /\ caller = "ready"
    /\ running' = FALSE
    /\ caller' = IF thread # 0 THEN "joining" ELSE "ready"
    /\ UNCHANGED <<fsVars, now, pc, cycleVars, thread, interval, sleep_time, wake,
                   back, cycles, call, result>>

\* join returns because the thread has ended
JoinReturns ==
    /\ caller = "joining"
    /\ pc[thread] = "free"
    /\ caller' = "ready"
    /\ UNCHANGED <<fsVars, now, pc, cycleVars, running, thread, interval,
                   sleep_time, wake, back, cycles, call, result>>

\* join gives up after 5 s on a thread that is blocked for longer
JoinTimesOut ==
    /\ caller = "joining"
    /\ Blocked(thread)
    /\ caller' = "ready"
    /\ UNCHANGED <<fsVars, now, pc, cycleVars, running, thread, interval,
                   sleep_time, wake, back, cycles, call, result>>

\* while self.running: false, the thread ends
Exit(t) ==
    /\ pc[t] = "loop"
    /\ ~running
    /\ pc' = [pc EXCEPT ![t] = "free"]
    /\ UNCHANGED <<fsVars, now, cycleVars, schedVars, cycles, call, result>>

\* variant: an error in the loop body ends the thread
ExceptBranchMut == "free"
\* except Exception: log the error, time.sleep(300), and back to the while
ExceptBranch == "cooldown"

\* the loop body up to the call of perform_update: load the record; .get
\* raises on a record that is no dict (the except branch sleeps 300 s); the
\* interval is read from this same record once the cycle is over
Load(t) ==
    /\ pc[t] = "loop"
    /\ running
    /\ \E o \in SaveOutcomes :
        LET ld == LoadVersionInfo(versionFile, o)
        IN  /\ versionFile' = ld.file
            /\ interval' = [interval EXCEPT ![t] =
                               Get(ld.dict, "update_check_interval", DefaultInterval)]
            /\ sleep_time' = [sleep_time EXCEPT ![t] = 0]
            /\ IF ~ld.isdict
               THEN /\ pc' = [pc EXCEPT ![t] = ExceptBranch]
                    /\ wake' = [wake EXCEPT ![t] = now + CooldownTicks]
                    /\ UNCHANGED <<cycleVars, back, cycles, call, result>>
               ELSE IF Enabled(ld.dict)
               THEN /\ pc' = [pc EXCEPT ![t] = "check"]
                    /\ back' = [back EXCEPT ![t] = "sleepchk"]
                    /\ Begin(t, ld.file)
                    /\ UNCHANGED wake
               ELSE /\ pc' = [pc EXCEPT ![t] = "sleepchk"]
                    /\ UNCHANGED <<cycleVars, wake, back, cycles, call, result>>
    /\ UNCHANGED <<live, backups, temp, svcRunning, now, running, thread, caller>>

\* while sleep_time < interval and self.running: sleep one slice of at most
\* 60 s (a tick)
SleepCheck(t) ==
    /\ pc[t] = "sleepchk"
    /\ IF sleep_time[t] < interval[t] /\ running
       THEN /\ pc' = [pc EXCEPT ![t] = "sleeping"]
            /\ wake' = [wake EXCEPT ![t] = now + Min(1, interval[t] - sleep_time[t])]
       ELSE /\ pc' = [pc EXCEPT ![t] = "loop"]
            /\ UNCHANGED wake
    /\ UNCHANGED <<fsVars, now, cycleVars, running, thread, caller, interval,
                   sleep_time, back, cycles, call, result>>

\* the slice is over: sleep_time += 60
SleepEnd(t) ==
    /\ pc[t] = "sleeping"
    /\ now >= wake[t]
    /\ sleep_time' = [sleep_time EXCEPT ![t] = @ + 1]
    /\ pc' = [pc EXCEPT ![t] = "sleepchk"]
    /\ UNCHANGED <<fsVars, now, cycleVars, running, thread, caller, interval,
                   wake, back, cycles, call, result>>

\* the 300 s after an error are over
CooldownEnd(t) ==
    /\ pc[t] = "cooldown"
    /\ now >= wake[t]
    /\ pc' = [pc EXCEPT ![t] = "loop"]
    /\ UNCHANGED <<fsVars, now, cycleVars, schedVars, cycles, call, result>>

SchedInitFiles ==
    {FileNotDict, FileOk(BaseRecord),
     FileOk([BaseRecord EXCEPT !.auto_update_enabled = FALSE])}

\* the service owns one UpdateScheduler; no thread runs yet
SchedInit ==
    /\ InitCommon
    /\ versionFile \in SchedInitFiles
    /\ pc = [t \in Threads |-> "free"]

SchedNext ==
    \/ Start
    \/ Stop
    \/ JoinReturns
    \/ JoinTimesOut
    \/ \E t \in Threads :
        \/ Exit(t) \/ Load(t) \/ SleepCheck(t) \/ SleepEnd(t) \/ CooldownEnd(t)
        \/ Step(t)
    \/ Tick

SchedSpec == SchedInit /\ [][SchedNext]_vars

\* ==================================================== NotebookMonitorService
\* The scheduler as the service runs it.  SvcDoRun starts the scheduler once
\* and waits for hWaitStop; a stop control that reaches the service (SvcStop
\* sets hWaitStop) lets SvcDoRun go on: it calls update_scheduler.stop() and
\* returns, and the process ends.  The scheduler thread is a daemon thread
\* (Thread(..., daemon=True)), so it ends with the process wherever it stands.
\* The service the updater stops with sc stop is this same service.

\* a stop control has reached the service: a _stop_service of a cycle
\* succeeded
StopDelivered == ~svcRunning \/ \E t \in Threads : ev[t].installstop = "ok"

\* self.update_scheduler.start()
SvcDoRunStart ==
    /\ thread = 0
    /\ Start

\* WaitForSingleObject(hWaitStop) returns; self.update_scheduler.stop()
SvcDoRunStop ==
    /\ running
    /\ StopDelivered
    /\ Stop

\* SvcDoRun returns and the process ends: every thread still alive is gone
SvcDoRunReturns ==
    /\ caller = "ready"
    /\ ~running
    /\ thread # 0
    /\ caller' = "exited"
    /\ pc' = [t \in Threads |-> IF pc[t] = "free" THEN "free" ELSE "killed"]
    /\ UNCHANGED <<fsVars, now, cycleVars, running, thread, interval, sleep_time,
                   wake, back, cycles, call, result>>

SvcNext ==
    \/ SvcDoRunStart
    \/ SvcDoRunStop
    \/ JoinReturns
    \/ JoinTimesOut
    \/ SvcDoRunReturns
    \/ \E t \in Threads :
        \/ Exit(t) \/ Load(t) \/ SleepCheck(t) \/ SleepEnd(t) \/ CooldownEnd(t)
        \/ Step(t)
    \/ Tick

SvcSpec == SchedInit /\ [][SvcNext]_vars

\* ====================================================== _is_newer_version
\* _is_newer_version called on its own, on version strings as text: a string
\* is the sequence of its dot-separated components, a component the sequence
\* of its characters, a character a digit 0..9 or NaD
MaxComponents == 3

NaD == 0 - 2                            \* a character that is no digit

Components == {<<0>>, <<1>>, <<9>>, <<1, 0>>, <<NaD>>}

VersionStrings == UNION {[1..n -> Components] : n \in 1..MaxComponents}

RECURSIVE Decimal(_)
Decimal(c) ==
    IF Len(c) = 1 THEN c[1]
    ELSE 10 * Decimal(SubSeq(c, 1, Len(c) - 1)) + c[Len(c)]

\* variant: a component counts by its first character
IntOfMut(c) == IF c = << >> \/ \E i \in 1..Len(c) : c[i] < 0 THEN NaC ELSE c[1]
\* int(component): NaC where int() raises ValueError
IntOf(c) == IF c = << >> \/ \E i \in 1..Len(c) : c[i] < 0 THEN NaC ELSE Decimal(c)

\* tuple(map(int, v.split('.')))
VersionTuple(v) == [i \in 1..Len(v) |-> IntOf(v[i])]

CompareInit ==
    /\ versionFile = FileAbsent
    /\ backups = {}
    /\ call \in [fn : {"_is_newer_version"}, new_version : VersionStrings,
                 current_version : VersionStrings]
    /\ result = [done |-> FALSE, val |-> FALSE]
    /\ InitRest
    /\ pc = [t \in Threads |-> "free"]

CallIsNewerVersion ==
    /\ call.fn = "_is_newer_version"
    /\ ~result.done
    /\ result' = [done |-> TRUE,
                  val |-> IsNewerVersion(VersionTuple(call.new_version),
                                         VersionTuple(call.current_version))]
    /\ UNCHANGED <<fsVars, now, pc, cycleVars, schedVars, cycles, call>>

CompareNext == CallIsNewerVersion

CompareSpec == CompareInit /\ [][CompareNext]_vars

\* ==================================================== _cleanup_old_backups
\* _cleanup_old_backups called on its own at time 0, on a backups directory
\* that holds archives of several ages (in days)
ArchiveAges == {0, 1, 5, 7, 10}

ArchiveOfAge(a) ==
    [path |-> [ver |-> V100, ts |-> 0 - a * TicksPerDay], mtime |-> 0 - a * TicksPerDay,
     files |-> [f \in OtherFiles |-> V100], vfile |-> FileOk(BaseRecord)]

PruneFiles ==
    {FileMalformed} \cup
    {FileOk([BaseRecord EXCEPT !.backup_retention_days = r]) : r \in {0, 1, 7}}

PruneInit ==
    /\ versionFile \in PruneFiles
    /\ backups \in SUBSET {ArchiveOfAge(a) : a \in ArchiveAges}
    /\ call = [fn |-> "_cleanup_old_backups"]
    /\ result = [done |-> FALSE, before |-> {}, pr |-> "ok"]
    /\ InitRest
    /\ pc = [t \in Threads |-> "free"]

CallCleanupOldBackups ==
    /\ call.fn = "_cleanup_old_backups"
    /\ ~result.done
    /\ \E pr \in {"ok", "fail"}, sub \in BOOLEAN :
        LET r == CleanupOldBackups(versionFile, backups, now, "ok", pr, sub)
        IN  /\ backups' = r.backups
            /\ versionFile' = r.file
            /\ result' = [done |-> TRUE, before |-> backups, pr |-> pr]
    /\ UNCHANGED <<live, temp, svcRunning, now, pc, cycleVars, schedVars, cycles,
                   call>>

PruneNext == CallCleanupOldBackups

PruneSpec == PruneInit /\ [][PruneNext]_vars

\* ========================================================= rollback_update
\* rollback_update called on its own, on an installation an update may have
\* overwritten, with the path of an archive that backups/ holds or not
BackupArchive ==
    [path |-> [ver |-> V100, ts |-> 0], mtime |-> 0,
     files |-> [f \in OtherFiles |-> IF f = "database_schema.sql" THEN NoFile ELSE V100],
     vfile |-> FileOk(BaseRecord)]

RollbackLive ==
    {lv \in [OtherFiles -> {NoFile, V100, V110}] : lv[".env"] = V100}

RollbackInit ==
    /\ versionFile \in {FileOk(BaseRecord), FileOk([BaseRecord EXCEPT !.version = V110])}
    /\ backups \in {{}, {BackupArchive}}
    /\ live \in RollbackLive
    /\ svcRunning \in BOOLEAN
    /\ call = [fn |-> "rollback_update", backup_path |-> BackupArchive.path]
    /\ result = [done |-> FALSE]
    /\ temp = NoTemp
    /\ now = 0
    /\ update_info = [t \in Threads |-> NoInfo]
    /\ backup_path = [t \in Threads |-> NoPath]
    /\ update_file = [t \in Threads |-> NoFile]
    /\ ret = [t \in Threads |-> "none"]
    /\ ev = [t \in Threads |-> EvNone(FileAbsent)]
    /\ running = FALSE
    /\ thread = 0
    /\ caller = "ready"
    /\ interval = [t \in Threads |-> 0]
    /\ sleep_time = [t \in Threads |-> 0]
    /\ wake = [t \in Threads |-> 0]
    /\ back = [t \in Threads |-> "idle"]
    /\ cycles = 0
    /\ pc = [t \in Threads |-> "free"]

CallRollbackUpdate ==
    /\ call.fn = "rollback_update"
    /\ ~result.done
    /\ \E stopOk, startOk \in BOOLEAN, x \in {"ok", "error"} :
        LET r == RollbackUpdate(call.backup_path, versionFile, live, backups,
                                svcRunning, stopOk, x, startOk)
        IN  /\ versionFile' = r.file
            /\ live' = r.live
            /\ svcRunning' = r.svc
            /\ result' = [done |-> TRUE, val |-> r.ret, x |-> x,
                          stopped |-> r.stopped, started |-> r.started,
                          live0 |-> live, file0 |-> versionFile]
    /\ UNCHANGED <<backups, temp, now, pc, cycleVars, schedVars, cycles, call>>

RollbackNext == CallRollbackUpdate

RollbackSpec == RollbackInit /\ [][RollbackNext]_vars

\* ========================================================= validate_update
\* validate_update called on its own, the service stopped (as install_update
\* leaves it) or running
ValidateInit ==
    /\ versionFile = FileOk(BaseRecord)
    /\ backups = {}
    /\ svcRunning \in BOOLEAN
    /\ call \in [fn : {"validate_update"}, startOk : BOOLEAN, alive : BOOLEAN,
                 log : Logs, rd : {"ok", "error"}, rb : {"ok", "error"}]
    /\ result = [done |-> FALSE]
    /\ live \in InitLive
    /\ temp = NoTemp
    /\ now = 0
    /\ update_info = [t \in Threads |-> NoInfo]
    /\ backup_path = [t \in Threads |-> NoPath]
    /\ update_file = [t \in Threads |-> NoFile]
    /\ ret = [t \in Threads |-> "none"]
    /\ ev = [t \in Threads |-> EvNone(FileAbsent)]
    /\ running = FALSE
    /\ thread = 0
    /\ caller = "ready"
    /\ interval = [t \in Threads |-> 0]
    /\ sleep_time = [t \in Threads |-> 0]
    /\ wake = [t \in Threads |-> 0]
    /\ back = [t \in Threads |-> "idle"]
    /\ cycles = 0
    /\ pc = [t \in Threads |-> "free"]

CallValidateUpdate ==
    /\ call.fn = "validate_update"
    /\ ~result.done
    /\ LET r == ValidateUpdate(svcRunning, call.startOk, call.alive, call.log,
                               call.rd, call.rb)
       IN  /\ svcRunning' = r.svc
           /\ result' = [done |-> TRUE, val |-> r.ret, started |-> r.started,
                         asked |-> r.asked, scanned |-> r.scanned]
    /\ UNCHANGED <<versionFile, live, backups, temp, now, pc, cycleVars, schedVars,
                   cycles, call>>

ValidateNext == CallValidateUpdate

ValidateSpec == ValidateInit /\ [][ValidateNext]_vars

\* ============================================== _get_checksum_from_release
\* _get_checksum_from_release called on a release with one checksum asset,
\* then download_update called with the candidate built from it
ChecksumInit ==
    /\ versionFile = FileOk(BaseRecord)
    /\ backups = {}
    /\ svcRunning = TRUE
    /\ call \in [fn : {"_get_checksum_from_release"}, asset : ChecksumAssets,
                 version : {V110, Empty}, url : BOOLEAN]
    /\ result = [done |-> FALSE, fetched |-> FALSE]
    /\ live \in InitLive
    /\ temp = NoTemp
    /\ now = 0
    /\ update_info = [t \in Threads |-> NoInfo]
    /\ backup_path = [t \in Threads |-> NoPath]
    /\ update_file = [t \in Threads |-> NoFile]
    /\ ret = [t \in Threads |-> "none"]
    /\ ev = [t \in Threads |-> EvNone(FileAbsent)]
    /\ running = FALSE
    /\ thread = 0
    /\ caller = "ready"
    /\ interval = [t \in Threads |-> 0]
    /\ sleep_time = [t \in Threads |-> 0]
    /\ wake = [t \in Threads |-> 0]
    /\ back = [t \in Threads |-> "idle"]
    /\ cycles = 0
    /\ pc = [t \in Threads |-> "free"]

CallGetChecksumFromRelease ==
    /\ call.fn = "_get_checksum_from_release"
    /\ ~result.fetched
    /\ result' = [done |-> FALSE, fetched |-> TRUE,
                  checksum |-> GetChecksumFromRelease(call.asset)]
    /\ UNCHANGED <<fsVars, now, pc, cycleVars, schedVars, cycles, call>>

CallDownloadUpdate ==
    /\ result.fetched
    /\ ~result.done
    /\ \E resp \in {"ok", "fail", "partial"}, p \in Payloads :
        LET info == [version |-> call.version, download_url |-> call.url,
                     checksum |-> result.checksum]
            r == DownloadUpdate(info, temp, resp, p)
        IN  /\ temp' = r.temp
            /\ result' = [done |-> TRUE, fetched |-> TRUE,
                          checksum |-> result.checksum, file |-> r.file,
                          whole |-> call.url /\ resp = "ok"]
    /\ UNCHANGED <<versionFile, live, backups, svcRunning, now, pc, cycleVars,
                   schedVars, cycles, call>>

ChecksumNext == CallGetChecksumFromRelease \/ CallDownloadUpdate

ChecksumSpec == ChecksumInit /\ [][ChecksumNext]_vars

\* ============================================================ create_backup
\* create_backup called on its own, as perform_update calls it (the record
\* read by check_for_updates just before), on an installation that may lack
\* any of the well-known files
BackupLive == [OtherFiles -> {NoFile, V100}]

BackupInit ==
    /\ versionFile \in {FileOk(BaseRecord), FileMalformed,
                         FileOk([BaseRecord EXCEPT !.backup_retention_days = 7])}
    /\ backups \in {{}, {ArchiveOfAge(10)}}
    /\ live \in BackupLive
    /\ svcRunning = TRUE
    /\ call = [fn |-> "create_backup"]
    /\ result = [done |-> FALSE]
    /\ temp = NoTemp
    /\ now = 0
    /\ update_info = [t \in Threads |-> NoInfo]
    /\ backup_path = [t \in Threads |-> NoPath]
    /\ update_file = [t \in Threads |-> NoFile]
    /\ ret = [t \in Threads |-> "none"]
    /\ ev = [t \in Threads |-> EvNone(FileAbsent)]
    /\ running = FALSE
    /\ thread = 0
    /\ caller = "ready"
    /\ interval = [t \in Threads |-> 0]
    /\ sleep_time = [t \in Threads |-> 0]
    /\ wake = [t \in Threads |-> 0]
    /\ back = [t \in Threads |-> "idle"]
    /\ cycles = 0
    /\ pc = [t \in Threads |-> "free"]

CallCreateBackup ==
    /\ call.fn = "create_backup"
    /\ ~result.done
    /\ \E o1, o2 \in SaveOutcomes, w, pr \in {"ok", "fail"}, sub \in BOOLEAN :
        LET r == CreateBackup(versionFile, live, backups, now, o1, w, o2, pr, sub)
        IN  /\ versionFile' = r.file
            /\ backups' = r.backups
            /\ result' = [done |-> TRUE, path |-> r.path, w |-> w, pr |-> pr,
                          before |-> backups]
    /\ UNCHANGED <<live, temp, svcRunning, now, pc, cycleVars, schedVars, cycles,
                   call>>

BackupNext == CallCreateBackup

BackupSpec == BackupInit /\ [][BackupNext]_vars

\* ===================================================== the wait, in seconds
\* _run_scheduler's loop with running left True, at the resolution of a second:
\* a pass calls perform_update, then sleeps until sleep_time reaches the
\* interval; an error in the pass goes to the 300 s of the except branch
MaxInterval == 200
MaxPasses == 3
SliceSeconds == 60

\* variant: every slice is a full one
SliceLengthMut(i, slept) == SliceSeconds
\* time.sleep(min(60, interval - sleep_time))
SliceLength(i, slept) == Min(SliceSeconds, i - slept)

SleepInit ==
    /\ call \in {[fn |-> "_run_scheduler", interval |-> i] : i \in 0..MaxInterval}
    /\ result = [phase |-> "cycle", passes |-> 1, sleep_time |-> 0, slept |-> 0,
                 last |-> 0]
    /\ versionFile = FileOk(BaseRecord)
    /\ backups = {}
    /\ live = [f \in OtherFiles |-> V100]
    /\ svcRunning = TRUE
    /\ temp = NoTemp
    /\ now = 0
    /\ update_info = [t \in Threads |-> NoInfo]
    /\ backup_path = [t \in Threads |-> NoPath]
    /\ update_file = [t \in Threads |-> NoFile]
    /\ ret = [t \in Threads |-> "none"]
    /\ ev = [t \in Threads |-> EvNone(FileAbsent)]
    /\ running = TRUE
    /\ thread = 0
    /\ caller = "ready"
    /\ interval = [t \in Threads |-> 0]
    /\ sleep_time = [t \in Threads |-> 0]
    /\ wake = [t \in Threads |-> 0]
    /\ back = [t \in Threads |-> "idle"]
    /\ cycles = 0
    /\ pc = [t \in Threads |-> "free"]

SleepUnchanged ==
    UNCHANGED <<fsVars, now, pc, cycleVars, schedVars, cycles, call>>

\* perform_update is back (or updates are disabled): sleep_time = 0
PassReturns ==
    /\ call.fn = "_run_scheduler"
    /\ result.phase = "cycle"
    /\ result' = [result EXCEPT !.phase = "wait", !.sleep_time = 0, !.slept = 0,
                                !.last = 0]
    /\ SleepUnchanged

\* the pass raised: time.sleep(300)
PassRaises ==
    /\ call.fn = "_run_scheduler"
    /\ result.phase = "cycle"
    /\ result' = [result EXCEPT !.phase = "cooldown", !.sleep_time = 0,
                                !.slept = CooldownTicks * SliceSeconds,
                                !.last = CooldownTicks * SliceSeconds]
    /\ SleepUnchanged

\* one turn of the inner while: sleep a slice, then sleep_time += 60
SleepSlice ==
    /\ call.fn = "_run_scheduler"
    /\ result.phase = "wait"
    /\ result.sleep_time < call.interval
    /\ LET d == SliceLength(call.interval, result.sleep_time)
       IN  result' = [result EXCEPT !.last = d, !.slept = @ + d,
                                    !.sleep_time = @ + SliceSeconds]
    /\ SleepUnchanged

\* the inner while is over, or the 300 s are: the outer while starts a pass
NextPass ==
    /\ call.fn = "_run_scheduler"
    /\ \/ result.phase = "wait" /\ ~(result.sleep_time < call.interval)
       \/ result.phase = "cooldown"
    /\ result.passes < MaxPasses
    /\ result' = [result EXCEPT !.phase = "cycle", !.passes = @ + 1]
    /\ SleepUnchanged

SleepNext == PassReturns \/ PassRaises \/ SleepSlice \/ NextPass

SleepSpec == SleepInit /\ [][SleepNext]_vars

\* ==================================================================== claims
\* the version the record gives (a missing file reads as the default record
\* load_version_info writes; an unreadable one gives none)
Ver(vf) ==
    CASE vf.st = "ok"     -> Get(vf.data, "version", NoFile)
      [] vf.st = "absent" -> DefaultVersion.version
      [] OTHER            -> NoFile

LastCheck(vf) ==
    IF vf.st = "ok" THEN Get(vf.data, "last_update_check", NoTime) ELSE NoTime

\* perform_update has returned to its caller
Returned(t) == ev[t].cleaned /\ pc[t] = back[t]

\* the candidate carries a checksum and the payload written whole has another
Mismatch(t) ==
    /\ ev[t].payload # NoPayload
    /\ update_info[t].checksum # NoChecksum
    /\ Sha256(ev[t].payload).hex # update_info[t].checksum.hex

\* C1: a step of a cycle that issues a service stop, overwrites a live file
\* or records another version is taken only when create_backup has returned
\* an archive path earlier in that cycle.
C1_BackupBeforeMutation ==
    [][\A t \in Threads :
         (/\ pc'[t] # pc[t]
          /\ \/ ev'[t].stop /\ ~ev[t].stop
             \/ Len(ev'[t].rollbacks) > Len(ev[t].rollbacks)
             \/ live' # live
             \/ Ver(versionFile') \notin {NoFile, Ver(versionFile)})
         => (ev[t].backup = "ok" /\ backup_path[t] # NoPath)]_vars

C1_Witness ==
    \E t \in Threads :
        /\ ev[t].backup = "ok"
        /\ ev[t].install = "ok"
        /\ live["requirements.txt"] = update_info[t].version
        /\ Ver(versionFile) = update_info[t].version

\* C2: a cycle that found a candidate returns True only if validate_update
\* returned True in it; when validate_update returned False, rollback_update
\* was called with the path create_backup returned in that cycle, and the
\* cycle does not return True.
C2_ValidateBeforeSuccess ==
    \A t \in Threads :
        Returned(t) =>
            /\ (update_info[t] # NoInfo /\ ret[t] = "true") => ev[t].validate = "ok"
            /\ ev[t].validate = "fail" =>
                  /\ ret[t] = "false"
                  /\ backup_path[t] # NoPath
                  /\ ev[t].rollbacks # << >>
                  /\ \A i \in 1..Len(ev[t].rollbacks) :
                        ev[t].rollbacks[i] = backup_path[t]

C2_Witness ==
    \E t \in Threads :
        /\ Returned(t)
        /\ ev[t].validate = "fail"
        /\ ev[t].rollbacks = <<backup_path[t]>>
        /\ ret[t] = "false"

\* C3: after every cycle that installed a candidate and whose validation then
\* failed, the backup has been restored and the record reads the version it
\* read before the cycle (stated for the cycles in which no file operation
\* failed).
C3_RollbackRestoresVersion ==
    \A t \in Threads :
        (/\ Returned(t)
         /\ ev[t].install = "ok"
         /\ ev[t].validate = "fail"
         /\ ~ev[t].ioerr)
        => (ev[t].restored /\ Ver(versionFile) = Ver(ev[t].pre))

\* C4: after every cycle that found a candidate and returned True, the
\* record reads the candidate's version.
C4_SuccessRecordsVersion ==
    \A t \in Threads :
        (Returned(t) /\ update_info[t] # NoInfo /\ ret[t] = "true")
        => Ver(versionFile) = update_info[t].version

\* C5: install_update is called in a cycle only after download_update
\* returned a path in it; when the candidate carries a checksum, a path is
\* returned only for a payload with that SHA-256, letter case aside; a cycle
\* with a mismatch never calls install_update.
C5_VerifyBeforeInstall ==
    \A t \in Threads :
        /\ ev[t].install # "none" => (ev[t].download = "ok" /\ update_file[t] # NoFile)
        /\ (ev[t].download = "ok" /\ update_info[t].checksum # NoChecksum)
              => Sha256(ev[t].payload).hex = update_info[t].checksum.hex
        /\ Mismatch(t) => ev[t].install = "none"

C5_Witness ==
    \E t \in Threads :
        /\ ev[t].install # "none"
        /\ update_info[t].checksum = Digest("full", TRUE)
        /\ ev[t].payload = PFull

C7_OneSchedulerThread == Cardinality(Alive) <= 1

C9_ExceptionHandled ==
    \A t \in Threads :
        (ev[t].raised /\ Returned(t)) =>
            /\ ret[t] = "false"
            /\ ev[t].handler = IF backup_path[t] # NoPath THEN "rollback" ELSE "norollback"
            /\ backup_path[t] # NoPath =>
                  ev[t].rollbacks[Len(ev[t].rollbacks)] = backup_path[t]
            /\ backup_path[t] = NoPath => ev[t].rollbacks = << >>

C9_Witness ==
    \E t \in Threads :
        /\ ev[t].raised /\ Returned(t) /\ ev[t].handler = "rollback"
        /\ ev[t].install = "ok"

C9_WitnessNoBackup ==
    \E t \in Threads :
        /\ ev[t].raised /\ Returned(t) /\ ev[t].handler = "norollback"
        /\ ev[t].backup = "fail"

\* C10: when the feed query failed, check_for_updates returned None, the
\* record's last-check timestamp is the one the cycle found, and the cycle
\* calls no backup, download, install, service stop or service start.
C10_FeedFailureIsQuiet ==
    \A t \in Threads :
        ev[t].net = "fail" =>
            /\ update_info[t] = NoInfo
            /\ LastCheck(versionFile) = LastCheck(ev[t].pre)
            /\ ev[t].backup = "none" /\ ev[t].download = "none"
            /\ ev[t].install = "none" /\ ev[t].rollbacks = << >>
            /\ ~ev[t].stop /\ ~ev[t].start

C10_Witness ==
    \E t \in Threads :
        /\ ev[t].net = "fail"
        /\ Returned(t)
        /\ ret[t] = "true"
        /\ LastCheck(ev[t].pre) = 0

\* the record holds a last-check timestamp less than its interval before t
Throttled(vf, t) ==
    /\ vf.st = "ok"
    /\ LastCheck(vf) # NoTime
    /\ t - LastCheck(vf) < Get(vf.data, "update_check_interval", DefaultInterval)

\* C11: a check_for_updates call made while the last-check timestamp is set
\* and less than update_check_interval old returns None, queries no feed and
\* leaves version.json as it was.
C11_Throttling ==
    [][\A t \in Threads :
         (pc[t] = "check" /\ pc'[t] # "check" /\ Throttled(versionFile, now))
         => (/\ ev'[t].net = "none"
             /\ update_info'[t] = NoInfo
             /\ versionFile' = versionFile)]_vars

C11_Witness ==
    \E t \in Threads :
        /\ pc[t] = "cleanup"
        /\ ev[t].net = "none"
        /\ Throttled(ev[t].pre, now)
        /\ now > LastCheck(ev[t].pre)
        /\ Enabled(ev[t].pre.data)
        /\ Get(ev[t].pre.data, "update_url", FALSE)

\* C12: a check_for_updates call whose feed query was answered leaves the
\* record with last_update_check = now and the version it had, whether or
\* not a candidate comes back (its saves succeeding); a call with any other
\* outcome leaves the last-check timestamp as it was.
C12_TimestampOnAnswer ==
    [][\A t \in Threads :
         (pc[t] = "check" /\ pc'[t] # "check")
         => IF ev'[t].net = "ok"
            THEN ~ev'[t].ioerr =>
                    /\ versionFile'.st = "ok"
                    /\ LastCheck(versionFile') = now
                    /\ Ver(versionFile') = Ver(versionFile)
            ELSE LastCheck(versionFile') = LastCheck(versionFile)]_vars

C12_Witness ==
    \E t \in Threads :
        /\ pc[t] = "cleanup"
        /\ ev[t].net = "ok"
        /\ ~ev[t].ioerr
        /\ update_info[t] = NoInfo
        /\ LastCheck(ev[t].pre) = 0
        /\ now > 0
        /\ LastCheck(versionFile) = now

\* version.json holds auto_update_enabled = false
Disabled(vf) == vf.st = "ok" /\ ~Get(vf.data, "auto_update_enabled", TRUE)

\* C13: while version.json holds auto_update_enabled = false, no thread has
\* queried the feed, made a backup, downloaded, installed, rolled back, or
\* stopped or started the service.
C13_DisabledIsQuiet ==
    Disabled(versionFile) =>
        \A t \in Threads :
            /\ ev[t].net = "none" /\ ev[t].backup = "none"
            /\ ev[t].download = "none" /\ ev[t].install = "none"
            /\ ev[t].validate = "none" /\ ev[t].rollbacks = << >>
            /\ ~ev[t].stop /\ ~ev[t].start

C13_Witness ==
    \E t \in Threads :
        /\ Disabled(versionFile)
        /\ Returned(t)
        /\ ret[t] = "true"

\* C16: every step that changes version.json leaves a complete record in it
\* (the old content or the new one, never a truncated file).
C16_AtomicSave ==
    [][versionFile' # versionFile => versionFile'.st = "ok"]_vars

\* C17: once rollback_update has restored the cycle's backup, every file the
\* archive was given (the well-known files that existed, version.json if it
\* existed) has the content it had when create_backup ran.
C17_BackupRoundTrip ==
    \A t \in Threads :
        (ev[t].restored /\ ev[t].snap.taken) =>
            /\ \A f \in OtherFiles :
                  ev[t].snap.files[f] # NoFile => live[f] = ev[t].snap.files[f]
            /\ ev[t].snap.vfile.st # "absent" => versionFile = ev[t].snap.vfile

C17_Witness ==
    \E t \in Threads :
        /\ ev[t].restored
        /\ ev[t].install = "ok"
        /\ ev[t].payload = PFull
        /\ live["requirements.txt"] = V100
        /\ live["database_schema.sql"] = update_info[t].version
        /\ Ver(versionFile) = V100

\* nothing of the cycle has touched the installation or the service
Untouched(e) ==
    /\ e.install = "none" /\ e.validate = "none" /\ e.rollbacks = << >>
    /\ ~e.stop /\ ~e.start

\* create_backup or download_update returned None and no error escaped
Aborted(e) == (e.backup = "fail" \/ e.download = "fail") /\ ~e.raised

\* C19: a cycle whose backup or download failed issues no stop, copy,
\* restore or start, returns False, and none of its steps changes the live
\* files, the version the record gives or the running state of the service.
C19_AbortLeavesInstallation ==
    [][\A t \in Threads :
         pc'[t] # pc[t] =>
            /\ Aborted(ev'[t]) =>
                  /\ Untouched(ev'[t])
                  /\ pc'[t] \in {"cleanup", back[t]}
                  /\ ret'[t] = "false"
            /\ (Untouched(ev'[t]) /\ pc[t] \notin {"idle", "loop"}) =>
                  /\ live' = live
                  /\ svcRunning' = svcRunning
                  /\ Ver(versionFile') \in {Ver(versionFile), NoFile}]_vars

C19_Witness ==
    \E t \in Threads :
        /\ Returned(t)
        /\ ev[t].backup = "ok"
        /\ ev[t].download = "fail"
        /\ Mismatch(t)
        /\ ~ev[t].raised
        /\ ret[t] = "false"
        /\ svcRunning

\* C20: an install_update whose _stop_service returned False returns False
\* and leaves temp_update (nothing extracted), the live files and
\* version.json as they were.
C20_StopFailureAbortsInstall ==
    [][\A t \in Threads :
         (pc[t] = "install" /\ pc'[t] # "install" /\ ev'[t].installstop = "fail")
         => (/\ ev'[t].install = "fail"
             /\ temp' = temp
             /\ live' = live
             /\ versionFile' = versionFile)]_vars

C20_Witness ==
    \E t \in Threads :
        /\ ev[t].installstop = "fail"
        /\ pc[t] = "cleanup"
        /\ ret[t] = "false"
        /\ temp.zip = PFull
        /\ ~temp.extracted
        /\ svcRunning

C22_CycleOutlivesStop ==
    \A t \in Threads :
        (pc[t] = "killed" /\ ev[t].installstop = "ok") => ev[t].cleaned

\* C23: a cycle in which install_update's _stop_service succeeded has
\* called _start_service at least once by the time it returns.
C23_StartAfterStop ==
    \A t \in Threads :
        (Returned(t) /\ ev[t].installstop = "ok") => ev[t].start

\* C24: the archive whose path create_backup returned is in backups/ once
\* create_backup has returned, whatever backup_retention_days is.
C24_FreshArchiveKept ==
    \A t \in Threads :
        (ev[t].backup = "ok" /\ backup_path[t] # NoPath)
        => \E b \in backups : b.path = backup_path[t]

\* C25: a rollback_update that changed a file of the installation had its
\* _stop_service return True.
C25_RestoreOnlyAfterStop ==
    (result.done /\ (live # result.live0 \/ versionFile # result.file0))
    => result.stopped

\* C26: once rollback_update has restored the cycle's backup, every
\* well-known file is as it was when create_backup ran, absent if it was
\* absent then.
C26_RollbackRestoresAbsence ==
    \A t \in Threads :
        (ev[t].restored /\ ev[t].snap.taken) =>
            \A f \in OtherFiles : live[f] = ev[t].snap.files[f]

\* the archive was opened and extracted over the installation
Extracted == result.x = "ok" /\ \E b \in backups : b.path = call.backup_path

\* C27: rollback_update returns True exactly when the archive was extracted
\* over the installation and the _start_service that follows returned True;
\* when the archive cannot be opened or extracted it returns False with every
\* file as it was and no start; a True leaves the service running.
C27_RollbackResult ==
    result.done =>
        /\ result.val <=> (Extracted /\ result.started)
        /\ ~Extracted => (/\ ~result.val /\ ~result.started
                          /\ live = result.live0 /\ versionFile = result.file0)
        /\ Extracted => (/\ \A f \in OtherFiles : BackupArchive.files[f] # NoFile
                                  => live[f] = BackupArchive.files[f]
                         /\ versionFile = BackupArchive.vfile)
        /\ result.val => svcRunning

C27_Witness ==
    /\ result.done
    /\ Extracted
    /\ ~result.started
    /\ ~result.val
    /\ result.live0["requirements.txt"] = V110
    /\ live["requirements.txt"] = V100

C27_WitnessSuccess ==
    /\ result.done
    /\ result.val
    /\ result.file0 # versionFile

\* one of the last 50 lines of the log holds a critical pattern
MarkerInLast50(log) ==
    log.exists /\ log.marker >= 1 /\ log.len - log.marker < 50

\* every read of the log that validate_update makes succeeds
LogReadable(c) ==
    c.rd = "ok" /\ (c.rb = "ok" \/ ~c.log.exists \/ c.log.len > 0)

C28_WitnessStartFails ==
    /\ result.done
    /\ ~result.started
    /\ ~result.asked /\ ~result.scanned /\ ~result.val
    /\ call.alive

\* C29: a validate_update that could not read the log returns False.
C29_ValidationFailsClosed ==
    (result.done /\ result.scanned /\ call.log.exists /\ ~LogReadable(call))
    => ~result.val

\* C30: when the fetch of the checksum asset failed (transport error, error
\* status, blank body), the candidate's checksum is absent and a download
\* that wrote its payload whole returns a path.
C30_ChecksumFailureNonFatal ==
    (result.fetched /\ call.asset.kind \in {"error", "httperror", "empty"}) =>
        /\ result.checksum = NoChecksum
        /\ (result.done /\ result.whole) => result.file # NoFile

\* C31: create_backup returns a path exactly when writing the archive
\* succeeded, whichever well-known files exist and whether or not the pruning
\* failed; the archive then holds the files that existed, and a failed write
\* or a failed pruning removes no archive.
C31_BackupResult ==
    result.done =>
        /\ result.path # NoPath <=> result.w = "ok"
        /\ (result.w = "fail" \/ result.pr = "fail") => result.before \subseteq backups
        /\ \A b \in backups : b.path = result.path => b.files = live

\* no well-known file exists and the pruning failed
C31_Witness ==
    /\ result.done
    /\ result.path # NoPath
    /\ result.pr = "fail"
    /\ \A f \in OtherFiles : live[f] = NoFile
    /\ \E b \in backups : b.path = result.path
    /\ ArchiveOfAge(10) \in backups

\* C32: while stop() has cleared running, a scheduler thread that waits
\* between cycles or after an error wakes within one slice, a tick (60 s).
C32_StopHonoredWithinSlice ==
    \A t \in Threads :
        (~running /\ pc[t] \in {"sleeping", "cooldown"}) => wake[t] - now <= 1

\* C33: with running left True, for every interval >= 0 the wait after a
\* pass is made of slices of at most 60 s that never add up to more than the
\* interval, and the next pass starts only once the pass before has returned
\* and the slices add up to the interval exactly (or the 300 s of the except
\* branch are over).
C33_WaitsTheInterval ==
    /\ [](result.phase = "wait" =>
            /\ result.last <= SliceSeconds
            /\ result.last >= 0
            /\ result.slept <= call.interval)
    /\ [][result'.phase = "cycle" =>
            \/ result.phase = "wait" /\ result.slept = call.interval
            \/ result.phase = "cooldown"]_vars

C33_Witness ==
    /\ result.phase = "cycle"
    /\ result.passes = 2
    /\ call.interval > 2 * SliceSeconds
    /\ result.slept = call.interval
    /\ result.last > 0
    /\ result.last < SliceSeconds

\* C34: a scheduler thread ends only at the while test with running
\* cleared, never through an error: an error in the loop body puts the thread
\* to sleep for 300 s (five ticks), and the sleep ends only when they are
\* over and only at the while test, which starts another pass if running.
C34_ErrorCoolsDown ==
    [][\A t \in Threads :
        /\ (pc'[t] = "free" /\ pc[t] # "free") =>
               pc[t] = "loop" /\ ~running
        /\ (pc'[t] = "cooldown" /\ pc[t] # "cooldown") =>
               pc[t] = "loop" /\ wake'[t] = now + CooldownTicks
        /\ (pc[t] = "cooldown" /\ pc'[t] # "cooldown") =>
               pc'[t] = "loop" /\ now >= wake[t]
        /\ (pc[t] = "loop" /\ running /\ pc'[t] # "loop") =>
               pc'[t] \in {"cooldown", "check", "sleepchk"}]_vars

\* a second pass after an error, which failed in turn
C34_Witness ==
    \E t \in Threads :
        /\ running
        /\ pc[t] = "cooldown"
        /\ now = CooldownTicks
        /\ wake[t] = 2 * CooldownTicks

\* the order of the steps of perform_update
StepRank(p) ==
    CASE p = "check"    -> 1
      [] p = "backup"   -> 2
      [] p = "download" -> 3
      [] p = "install"  -> 4
      [] p = "validate" -> 5
      [] p = "rollback" -> 6
      [] p = "except"   -> 7
      [] p = "cleanup"  -> 8
      [] OTHER          -> 9

InCycle(t) == StepRank(pc[t]) < 9

\* C35: a call of perform_update that has begun returns in the end; every
\* step of it moves the call to a later step (so check, backup, download,
\* install, validate and the rollback of a failed validation each run at most
\* once), and rollback_update runs a second time only from the top-level
\* handler.
C35_CycleTerminates ==
    /\ \A t \in Threads : InCycle(t) ~> Returned(t)
    /\ [][\A t \in Threads : InCycle(t) => StepRank(pc'[t]) > StepRank(pc[t])]_vars
    /\ [](\A t \in Threads :
            /\ Len(ev[t].rollbacks) <= 2
            /\ Len(ev[t].rollbacks) = 2 => ev[t].handler = "rollback")

\* a returned call that ran every step, the rollback twice
C35_Witness ==
    \E t \in Threads :
        /\ Returned(t)
        /\ ev[t].validate = "fail"
        /\ Len(ev[t].rollbacks) = 2
        /\ ev[t].handler = "rollback"

\* C36: whenever version.json records a version during a cycle or after it,
\* it is the version recorded when the cycle began or one that is greater in
\* integer-tuple order, whatever failed in the cycle.
C36_VersionNeverDecreases ==
    \A t \in Threads :
        ((InCycle(t) \/ Returned(t)) /\ Ver(ev[t].pre) # NoFile
                                     /\ Ver(versionFile) # NoFile) =>
            \/ Ver(versionFile) = Ver(ev[t].pre)
            \/ TupleGreater(Ver(versionFile), Ver(ev[t].pre))

\* a cycle that recorded 1.1.0 over 1.0.0 and kept it
C36_Witness ==
    \E t \in Threads :
        /\ Returned(t)
        /\ ~ev[t].ioerr
        /\ ev[t].validate = "ok"
        /\ Ver(ev[t].pre) = V100
        /\ Ver(versionFile) = V110

\* the interval the record gives, as check_for_updates reads it
CheckInterval(vf) ==
    IF vf.st = "ok" THEN Get(vf.data, "update_check_interval", DefaultInterval)
    ELSE DefaultInterval

C38_MalformedIsQuiet ==
    \A t \in Threads :
        ((InCycle(t) \/ Returned(t)) /\ ev[t].pre.st = "malformed") =>
            /\ versionFile = ev[t].pre
            /\ ev[t].net = "none" /\ ev[t].backup = "none"
            /\ ev[t].download = "none"
            /\ Untouched(ev[t])
            /\ (Returned(t) /\ ~ev[t].raised) => ret[t] = "true"

C38_Witness ==
    \E t \in Threads :
        /\ Returned(t)
        /\ ev[t].pre.st = "malformed"
        /\ ~ev[t].raised
        /\ ret[t] = "true"
        /\ versionFile = FileMalformed

\* C14: for two version strings with different numbers of components,
\* _is_newer_version returns False.
C14_ArityMismatchNotNewer ==
    (result.done /\ Len(call.new_version) # Len(call.current_version))
    => ~result.val

\* the strings parse: every component is a non-empty run of digits
ParsesAsIntegers(v) ==
    \A i \in 1..Len(v) : v[i] # << >> /\ \A j \in 1..Len(v[i]) : v[i][j] \in 0..9

RECURSIVE Pow10(_)
Pow10(n) == IF n = 0 THEN 1 ELSE 10 * Pow10(n - 1)

RECURSIVE Numeric(_, _)
Numeric(c, i) ==
    IF i > Len(c) THEN 0 ELSE c[i] * Pow10(Len(c) - i) + Numeric(c, i + 1)

\* lexicographic order on the numbers of the components
RECURSIVE LexGreater(_, _)
LexGreater(a, b) ==
    /\ a # << >>
    /\ \/ b = << >>
       \/ Numeric(Head(a), 1) > Numeric(Head(b), 1)
       \/ /\ Numeric(Head(a), 1) = Numeric(Head(b), 1)
          /\ LexGreater(Tail(a), Tail(b))

\* C15: _is_newer_version(new, current) is True exactly when both strings
\* parse as dot-separated integers and new's tuple of numbers is
\* lexicographically greater than current's; equal versions and strings that
\* do not parse give False.
C15_NewerIffTupleGreater ==
    result.done =>
        (result.val <=> /\ ParsesAsIntegers(call.new_version)
                        /\ ParsesAsIntegers(call.current_version)
                        /\ LexGreater(call.new_version, call.current_version))

\* "1.10.0" against "1.9.9"
C15_Witness ==
    /\ result.done
    /\ call.new_version = <<<<1>>, <<1, 0>>, <<0>>>>
    /\ call.current_version = <<<<1>>, <<9>>, <<9>>>>
    /\ result.val

\* C18: _cleanup_old_backups removes every archive whose mtime is before now
\* less backup_retention_days, keeps every archive whose mtime is after it,
\* and adds none (an archive written in the very minute of the cutoff may go
\* either way).
C18_RetentionPruning ==
    (result.done /\ result.pr = "ok") =>
        LET retention_days ==
                Get(LoadVersionInfo(versionFile, "ok").dict,
                    "backup_retention_days", DefaultRetentionDays)
            cutoff == now - retention_days * TicksPerDay
        IN  /\ backups \subseteq result.before
            /\ \A b \in result.before :
                  /\ b.mtime < cutoff => b \notin backups
                  /\ b.mtime > cutoff => b \in backups

\* archives 10, 5 and 1 days old, retention 7 days
C18_Witness ==
    /\ result.done
    /\ Get(versionFile.data, "backup_retention_days", 0) = 7
    /\ result.before = {ArchiveOfAge(10), ArchiveOfAge(5), ArchiveOfAge(1)}
    /\ backups = {ArchiveOfAge(5), ArchiveOfAge(1)}

====
